---- MODULE Spec2Model ----
(***************************************************************************)
(* A model of the SimpleServer stream-server engine (src/src/ss/Server.cpp) *)
(* and of the echo handler shipped with it (src/test/main.cpp).             *)
(*                                                                          *)
(* The event loop is driven by several worker threads.  Every completion    *)
(* handler is modelled by the step that queues its completion (the reactor  *)
(* finished the operation), the step that takes it off the queue (a worker  *)
(* starts the handler) and the step(s) that run its body.  Server::stop()   *)
(* runs on a thread of its own and is modelled by one step per call it      *)
(* makes and per use of an iterator of sessions_; remove_if of the accept   *)
(* handler likewise takes one step per element.                             *)
(***************************************************************************)
EXTENDS Integers, Sequences, FiniteSets, TLC

\* ------------------------------------------------------------------ bounds

\* Connections the listening socket accepts in one run.
MaxConn == 2
\* Bytes the peers send, over all connections, in one run of the server.
MaxInput == 1
\* Bytes the peers send, over all connections, to sessions that are running.
MaxStream == 3
\* Calls of Server::stop() in one run.
MaxStops == 2

Conn == 1..MaxConn

\* ------------------------------------------------------------------- bytes

\* '\n'
NL == 10
\* The letter the peer of connection s sends: 'a' for 1, 'b' for 2, ...
Letter(s) == 96 + s
Alphabet(s) == {Letter(s), NL}

RECURSIVE SeqsUpTo(_, _)
SeqsUpTo(S, n) ==
  IF n = 0 THEN {<<>>}
  ELSE LET shorter == SeqsUpTo(S, n - 1)
       IN  shorter \cup {Append(q, b) : q \in shorter, b \in S}

\* The byte strings a read can append: at least one byte (transfer_at_least(1)).
Chunks(s, n) == SeqsUpTo(Alphabet(s), n) \ {<<>>}

Min(a, b) == IF a < b THEN a ELSE b

\* std::string_view{data + n, size - n}
DropFirst(q, n) == SubSeq(q, n + 1, Len(q))

\* std::string::erase(0, n): the count is clipped to the size.
Erase(q, n) == SubSeq(q, Min(n, Len(q)) + 1, Len(q))

Range(q) == {q[i] : i \in 1..Len(q)}

\* ---------------------------------------------------------------- handlers

\* The handlers the factory can make: the echo handler of test/main.cpp, and
\* "any", a handler of which only the interface is known.
HandlerKinds == {"echo", "any"}

\* EchoReqHandler::handle: the regex ^[^\n]*\n matches the first line of the
\* view, and nothing when the view holds no '\n'.  reqIgnoreLength stays at
\* the 0 the session initialised it with when the handler reports PartialData.
EchoHandle(view) ==
  IF NL \in Range(view)
  THEN LET k == CHOOSE i \in 1..Len(view) :
                  view[i] = NL /\ \A j \in 1..(i - 1) : view[j] # NL
       IN  [status |-> "Success", ignore |-> k, out |-> SubSeq(view, 1, k)]
  ELSE [status |-> "PartialData", ignore |-> 0, out |-> <<>>]

\* What a handler a user supplies may answer for a view: any status, any
\* consumed length (larger than the view included), some output or none.
AnyHandle(view) ==
  {[status |-> "Success", ignore |-> n, out |-> o] :
      n \in 0..(Len(view) + 1), o \in {<<>>, <<view[1]>>}}
  \cup {[status |-> "PartialData", ignore |-> n, out |-> <<>>] : n \in {0, 1}}
  \cup {[status |-> "Other", ignore |-> 0, out |-> <<>>]}

HandleResults(kind, view) ==
  IF kind = "echo" THEN {EchoHandle(view)} ELSE AnyHandle(view)

\* ------------------------------------------------- the request handling loop

\* One call of the log a processing pass keeps of its handler calls.
Call(view, r) ==
  [view |-> view, status |-> r.status, ignore |-> r.ignore, out |-> r.out]

\* The view after a successful call that consumed n bytes of it: the offset of
\* the view in reqBuffer_ moves by n.
Advance(off, n) == off + n

\* Stage with the output put in front of what is staged.
Stage_Prepend(res, out) == out \o res

\* std::back_inserter(resBuffer_): the handler's output goes to the end.
Stage(res, out) == res \o out

\* Retain without the erase: the whole buffer stays.
Retain_KeepAll(req, off, n) == req

\* Retain with the whole buffer dropped, as after a successful pass.
Retain_ClearAll(req, off, n) == <<>>

\* What PartialData leaves in reqBuffer_:
\* erase(0, view.data() - reqBuffer_.data() + reqIgnoreLength).
Retain(req, off, n) == Erase(req, off + n)

\* Cleared that leaves the buffer as it is.
Cleared_KeepsBuffer(req) == req

\* reqBuffer_.clear(), line 164.
Cleared(req) == <<>>

\* Session::operator(), lines 154-189: the outcomes of the loop over the
\* handler calls, started with the view at offset off of req.  err is "ok"
\* when the loop was left by break, "handler" when the handler failed.
RECURSIVE PassOutcomes(_, _, _, _, _)
PassOutcomes(kind, req, off, res, log) ==
  LET view == DropFirst(req, off)
      After(r) ==
        LET res2 == Stage(res, r.out)
            log2 == Append(log, Call(view, r))
        IN  IF r.status = "Success"
            THEN IF r.ignore = 0 \/ r.ignore >= Len(view)
                 THEN {[req |-> Cleared(req), res |-> res2, err |-> "ok",
                        log |-> log2]}
                 ELSE PassOutcomes(kind, req, Advance(off, r.ignore), res2, log2)
            ELSE IF r.status = "PartialData"
                 THEN {[req |-> Retain(req, off, r.ignore), res |-> res2,
                        err |-> "ok", log |-> log2]}
                 ELSE {[req |-> req, res |-> res2, err |-> "handler",
                        log |-> log2]}
  IN  UNION {After(r) : r \in HandleResults(kind, view)}

ProcessPass(kind, req, res) == PassOutcomes(kind, req, 0, res, <<>>)

\* ------------------------------------------------------------------- state

VARIABLES
  session,      \* per connection: the Session object and its socket
  hist,         \* per connection: what was observed of it (history only)
  sessions,     \* ServerImplStream::sessions_
  acceptor,     \* acceptor_ and the position of the accept coroutine
  nconn,        \* connections accepted so far
  stopper,      \* the thread calling Server::stop()
  factoryKind,  \* the handlers reqHandlerFactory_ makes
  budget,       \* bytes the peers have yet to send
  builder,      \* a ServerBuilder
  built         \* what ServerBuilder::build() returned or threw

vars == <<session, hist, sessions, acceptor, nconn, stopper, factoryKind,
          budget, builder, built>>

serverVars ==
  <<session, hist, sessions, acceptor, nconn, stopper, factoryKind, budget>>
builderVars == <<builder, built>>

\* No Session object yet.
NoSession ==
  [state |-> "absent", open |-> FALSE, ops |-> <<>>, comps |-> <<>>,
   coro |-> "entry", reqBuffer |-> <<>>, resBuffer |-> <<>>,
   handler |-> "none"]

\* Session::Session: the socket is the accepted one (open), the coroutine at
\* its entry, both buffers empty.
NewSession(kind) ==
  [state |-> "alive", open |-> TRUE, ops |-> <<>>, comps |-> <<>>,
   coro |-> "entry", reqBuffer |-> <<>>, resBuffer |-> <<>>,
   handler |-> kind]

NoHist ==
  [life |-> <<>>, startOk |-> FALSE, didIO |-> FALSE, ioAfterClose |-> FALSE,
   recvd |-> <<>>, reads |-> 0, written |-> <<>>, passIn |-> <<>>, passLog |-> <<>>,
   passOut |-> <<>>, afterStop |-> FALSE, stopSeen |-> FALSE]

\* ---------------------------------------------------------------- Session
\* The operators below take and give p = [s |-> the Session, h |-> its history].

CloseRan(h) == \E i \in 1..Len(h.life) : h.life[i] = "atSessionClose"

\* Session::atClose: atSessionClose, then shutdown, then close of the socket.
AtClose(p) ==
  [s |-> [p.s EXCEPT !.open = FALSE],
   h |-> [p.h EXCEPT !.life = @ \o <<"atSessionClose", "shutdown", "close">>]]

\* yield asio::async_read(...), lines 139-148.
IssueRead(p) ==
  [s |-> [p.s EXCEPT !.ops = Append(@, "read"), !.coro = "read"],
   h |-> [p.h EXCEPT !.didIO = TRUE,
                     !.ioAfterClose = @ \/ CloseRan(p.h)]]

\* yield asio::async_write(...), lines 195-204.
IssueWrite(p) ==
  [s |-> [p.s EXCEPT !.ops = Append(@, "write"), !.coro = "write"],
   h |-> [p.h EXCEPT !.didIO = TRUE,
                     !.ioAfterClose = @ \/ CloseRan(p.h)]]

\* HandlerFailed that leaves the loop as PartialData does: the session goes on
\* with what the pass staged.
HandlerFailed_GoesOn(p) ==
  IF p.s.resBuffer = <<>> THEN IssueRead(p) ELSE IssueWrite(p)

\* Lines 184-186: a handler status other than Success and PartialData calls
\* operator() again with that error, which closes the session; the return of
\* line 186 then leaves the coroutine without a yield, which completes it.
HandlerFailed(p) ==
  LET q == AtClose(p)
  IN  [s |-> [q.s EXCEPT !.coro = "complete"], h |-> q.h]

\* AfterPass that issues the write whether or not the pass staged anything.
AfterPass_WritesAlways(p, o) ==
  LET q == [s |-> [p.s EXCEPT !.reqBuffer = o.req, !.resBuffer = o.res],
            h |-> [p.h EXCEPT !.didIO = TRUE,
                              !.ioAfterClose = @ \/ CloseRan(p.h),
                              !.passIn = p.s.reqBuffer,
                              !.passLog = o.log,
                              !.passOut = o.res]]
  IN  IF o.err = "handler" THEN HandlerFailed(q) ELSE IssueWrite(q)

\* AfterPass that goes back to reading whatever the pass staged.
AfterPass_SkipsWrite(p, o) ==
  LET q == [s |-> [p.s EXCEPT !.reqBuffer = o.req, !.resBuffer = o.res],
            h |-> [p.h EXCEPT !.didIO = TRUE,
                              !.ioAfterClose = @ \/ CloseRan(p.h),
                              !.passIn = p.s.reqBuffer,
                              !.passLog = o.log,
                              !.passOut = o.res]]
  IN  IF o.err = "handler" THEN HandlerFailed(q) ELSE IssueRead(q)

\* Lines 150-210 after a completed read: the processing pass with outcome o,
\* then the write of what it staged, or the next read when it staged nothing.
AfterPass(p, o) ==
  LET q == [s |-> [p.s EXCEPT !.reqBuffer = o.req, !.resBuffer = o.res],
            h |-> [p.h EXCEPT !.didIO = TRUE,
                              !.ioAfterClose = @ \/ CloseRan(p.h),
                              !.passIn = p.s.reqBuffer,
                              !.passLog = o.log,
                              !.passOut = o.res]]
  IN  IF o.err = "handler" THEN HandlerFailed(q)
      ELSE IF o.res = <<>> THEN IssueRead(q)
      ELSE IssueWrite(q)

\* AfterWrite that issues the read twice.
AfterWrite_ReadTwice(p) ==
  IssueRead(IssueRead([s |-> [p.s EXCEPT !.resBuffer = <<>>], h |-> p.h]))

\* Lines 206-210 after a completed write: clear resBuffer_, read again.
AfterWrite(p) ==
  IssueRead([s |-> [p.s EXCEPT !.resBuffer = <<>>], h |-> p.h])

\* Resume without the return of line 134: after the close sequence the
\* coroutine is entered again.
Resume_NoReturn(p, err) ==
  IF err # "ok" THEN {IssueRead(AtClose(p))}
  ELSE IF p.s.coro = "complete" THEN {p}
  ELSE IF p.s.coro = "entry" THEN {IssueRead(p)}
  ELSE IF p.s.coro = "read"
       THEN {AfterPass(p, o) :
               o \in ProcessPass(p.s.handler, p.s.reqBuffer, p.s.resBuffer)}
  ELSE {AfterWrite(p)}

\* Session::operator()(self, err, transfered): the outcomes of one call.  An
\* error is handled before reenter; reenter of a completed coroutine runs
\* nothing.
Resume(p, err) ==
  IF err # "ok" THEN {AtClose(p)}
  ELSE IF p.s.coro = "complete" THEN {p}
  ELSE IF p.s.coro = "entry" THEN {IssueRead(p)}
  ELSE IF p.s.coro = "read"
       THEN {AfterPass(p, o) :
               o \in ProcessPass(p.s.handler, p.s.reqBuffer, p.s.resBuffer)}
  ELSE {AfterWrite(p)}

\* Start without the return of line 73: operator() is called whatever
\* atSessionStart answered.
Start_IgnoresFailure(p, ok) ==
  Resume([s |-> p.s,
          h |-> [p.h EXCEPT !.life = Append(@, "atSessionStart"),
                            !.startOk = ok]],
         "ok")

\* Session::start: atSessionStart, and the first call of operator() unless it
\* failed.
Start(p, ok) ==
  LET q == [s |-> p.s,
            h |-> [p.h EXCEPT !.life = Append(@, "atSessionStart"),
                              !.startOk = ok]]
  IN  IF ~ok THEN {q} ELSE Resume(q, "ok")

\* socket_.cancel(): every outstanding operation completes with
\* operation_aborted; a completion already queued is not touched.
Cancel(sr) ==
  [sr EXCEPT !.ops = <<>>,
             !.comps = @ \o [i \in 1..Len(sr.ops) |-> "aborted"]]

\* Session::close.
Close(sr) == IF ~sr.open THEN sr ELSE Cancel(sr)

\* Session::isOpen.
IsOpen(sr) == sr.open

\* What keeps a Session alive: sessions_, the self that the handler of a
\* pending operation or of a queued completion holds, and the accept
\* handler's local SessionPtr.
Referenced(sess, list, local, c) ==
  \/ c \in Range(list)
  \/ c \in local
  \/ sess[c].ops # <<>>
  \/ sess[c].comps # <<>>

Unreferenced(sess, list, local) ==
  {c \in Conn : sess[c].state = "alive" /\ ~Referenced(sess, list, local, c)}

\* The destructor of every Session nothing refers to any more: it closes a
\* socket that is still open, and calls nothing of the handler.
ReapSessions(sess, list, local) ==
  [c \in Conn |->
     IF c \in Unreferenced(sess, list, local)
     THEN [sess[c] EXCEPT !.state = "destroyed", !.open = FALSE]
     ELSE sess[c]]

ReapHist(sess, hs, list, local) ==
  [c \in Conn |->
     IF c \in Unreferenced(sess, list, local) /\ sess[c].open
     THEN [hs[c] EXCEPT !.life = Append(@, "dtor")]
     ELSE hs[c]]

\* ------------------------------------------------------ a session's transport

\* The process runs: no thread of it has faulted.
Running == acceptor.pc # "crashed" /\ stopper.pc # "crashed"

\* q without its i-th element.
Without(q, i) == SubSeq(q, 1, i - 1) \o SubSeq(q, i + 1, Len(q))

Pending(sr, kind) == {i \in 1..Len(sr.ops) : sr.ops[i] = kind}

\* The history of the last processing pass is that of the last completed read.
NoPass(h) == [h EXCEPT !.passIn = <<>>, !.passLog = <<>>, !.passOut = <<>>]

\* The read of lines 139-148 completes: the bytes are appended to reqBuffer_
\* (asio::dynamic_buffer) and the completion is queued for the strand.
ReadComplete(c) ==
  /\ Running
  /\ \E i \in Pending(session[c], "read") :
     \E chunk \in Chunks(c, budget) :
       /\ budget' = budget - Len(chunk)
       /\ session' = [session EXCEPT ![c] =
                        [@ EXCEPT !.ops = Without(@, i),
                                  !.comps = Append(@, "ok"),
                                  !.reqBuffer = @ \o chunk]]
       /\ hist' = [hist EXCEPT ![c] = [NoPass(@) EXCEPT !.recvd = @ \o chunk,
                                                       !.reads = @ + 1]]
  /\ UNCHANGED <<sessions, acceptor, nconn, stopper, factoryKind, builderVars>>

\* The read fails: the peer closed the connection (eof), or another error.
ReadFail(c) ==
  /\ Running
  /\ \E i \in Pending(session[c], "read") : \E e \in {"eof", "error"} :
       session' = [session EXCEPT ![c] =
                     [@ EXCEPT !.ops = Without(@, i), !.comps = Append(@, e)]]
  /\ UNCHANGED <<hist, sessions, acceptor, nconn, stopper, factoryKind,
                 budget, builderVars>>

\* The write of lines 195-204 completes: all of resBuffer_ is on the wire and
\* consumed from the dynamic buffer.
WriteComplete(c) ==
  /\ Running
  /\ \E i \in Pending(session[c], "write") :
       session' = [session EXCEPT ![c] =
                     [@ EXCEPT !.ops = Without(@, i),
                               !.comps = Append(@, "ok"),
                               !.resBuffer = <<>>]]
  /\ hist' = [hist EXCEPT ![c].written = @ \o session[c].resBuffer]
  /\ UNCHANGED <<sessions, acceptor, nconn, stopper, factoryKind, budget, builderVars>>

\* The write fails after k bytes.
WriteFail(c) ==
  /\ Running
  /\ \E i \in Pending(session[c], "write") :
     \E k \in 0..(Len(session[c].resBuffer) - 1) :
       /\ session' = [session EXCEPT ![c] =
                        [@ EXCEPT !.ops = Without(@, i),
                                  !.comps = Append(@, "error"),
                                  !.resBuffer = DropFirst(@, k)]]
       /\ hist' = [hist EXCEPT ![c].written =
                                  @ \o SubSeq(session[c].resBuffer, 1, k)]
  /\ UNCHANGED <<sessions, acceptor, nconn, stopper, factoryKind, budget, builderVars>>

\* What the accept handler holds: its local SessionPtr (lines 325-331), and
\* the elements remove_if has taken out of sessions_ and destroys when it
\* returns.
AcceptLocal ==
  (IF acceptor.pc = "started" THEN {nconn} ELSE {}) \cup acceptor.removed

\* SessionRun with a failure that is not contained: when the session closes,
\* the pending accept is cancelled too.
SessionRun_Escalates(c) ==
  /\ Running
  /\ session[c].comps # <<>>
  /\ \E q \in Resume([s |-> [session[c] EXCEPT !.comps = Tail(@)],
                      h |-> hist[c]],
                     Head(session[c].comps)) :
       LET sess2 == [session EXCEPT ![c] = q.s]
           hist2 == [hist EXCEPT ![c] = q.h]
       IN  /\ session' = ReapSessions(sess2, sessions, AcceptLocal)
           /\ hist' = ReapHist(sess2, hist2, sessions, AcceptLocal)
           /\ acceptor' =
                IF CloseRan(q.h) /\ ~CloseRan(hist[c]) /\ acceptor.op
                THEN [acceptor EXCEPT !.op = FALSE, !.comp = "aborted"]
                ELSE acceptor
  /\ UNCHANGED <<sessions, nconn, stopper, factoryKind, budget, builderVars>>

\* The strand runs the handler of the session's first queued completion
\* (bound at lines 143-148 and 199-204): Session::operator() with the
\* completion's error code.  When it returns, the self it held is released.
SessionRun(c) ==
  /\ Running
  /\ session[c].comps # <<>>
  /\ \E q \in Resume([s |-> [session[c] EXCEPT !.comps = Tail(@)],
                      h |-> hist[c]],
                     Head(session[c].comps)) :
       LET sess2 == [session EXCEPT ![c] = q.s]
           hist2 == [hist EXCEPT ![c] = q.h]
       IN  /\ session' = ReapSessions(sess2, sessions, AcceptLocal)
           /\ hist' = ReapHist(sess2, hist2, sessions, AcceptLocal)
  /\ UNCHANGED <<sessions, acceptor, nconn, stopper, factoryKind, budget, builderVars>>

\* ------------------------------------------------- iterators of sessions_
\* An iterator of sessions_ is the connection of the element it is at, and 0
\* at the end.  sessions_ is a std::list that the accept handler and
\* closeAllSessions use from different threads without a lock.

\* The first element of list, and 0 (the end) when it has none.
First(list) == IF list = <<>> THEN 0 ELSE list[1]

\* The element after c in list, and 0 (the end) when c is the last one.
Successor(list, c) ==
  LET i == CHOOSE k \in 1..Len(list) : list[k] = c
  IN  IF i = Len(list) THEN 0 ELSE list[i + 1]

\* list without the element c.
Unlinked(list, c) == SelectSeq(list, LAMBDA d : d # c)

\* The iterator it of list dangles: the other thread has taken the element
\* it is at out of the list, and the node is freed.
Dangles(it, list) == it # 0 /\ it \notin Range(list)

\* What using the iterator it of list gives: the element it is at (0, the
\* end) while that element is in the list.  The use of a dangling iterator is
\* undefined.  The thread faults (-1); or the freed node designates nothing
\* that is open (0); or it designates a live Session: one of the list, or one
\* that is in no list, such as the Session that make_shared has placed in the
\* memory of the destroyed one before the accept handler inserts it.
IteratorAt(it, list) ==
  IF ~Dangles(it, list) THEN {it}
  ELSE {c \in Conn : session[c].state = "alive"} \cup {0, -1}

\* Where ++ leaves the iterator it of list: at the next element, or at the end
\* (0).  For a dangling iterator the next pointer is whatever the freed node
\* holds: the thread faults (-1), or the iterator stays off the list (it), or
\* is at some element of the list or at the end.
IteratorNext(it, list) ==
  IF ~Dangles(it, list) THEN {Successor(list, it)}
  ELSE Range(list) \cup {it, 0, -1}

\* ---------------------------------------------------------- the accept loop

\* yield acceptor_.async_accept(...), lines 305-309.
IssueAccept(a) == [a EXCEPT !.op = TRUE, !.pc = "wait"]

\* Caught that leaves the accept coroutine instead of going round the loop.
Caught_EndsLoop(a) == [a EXCEPT !.pc = "ended"]

\* Lines 334-337: an exception thrown while the accepted connection is
\* handled is caught and logged, and the loop goes on to the next accept.
Caught(a) == IssueAccept(a)

\* Server::asyncRun -> startAccepting: the first call of the accept coroutine.
\* The program calls it once, before anything can call stop() (test/main.cpp,
\* lines 88 and 93-108).
AsyncRun ==
  /\ Running
  /\ acceptor.pc = "init"
  /\ stopper = [pc |-> "idle", stops |-> 0, it |-> 0]
  /\ acceptor' = IssueAccept(acceptor)
  /\ UNCHANGED <<session, hist, sessions, nconn, stopper, factoryKind,
                 budget, builderVars>>

\* A connection arrives: the pending accept completes with its socket.
AcceptComplete ==
  /\ Running
  /\ acceptor.op
  /\ nconn < MaxConn
  /\ acceptor' = [acceptor EXCEPT !.op = FALSE, !.comp = "ok"]
  /\ nconn' = nconn + 1
  /\ UNCHANGED <<session, hist, sessions, stopper, factoryKind, budget, builderVars>>

\* The pending accept fails with an error other than cancellation.
AcceptFail ==
  /\ Running
  /\ acceptor.op
  /\ acceptor' = [acceptor EXCEPT !.op = FALSE, !.comp = "error"]
  /\ UNCHANGED <<session, hist, sessions, nconn, stopper, factoryKind,
                 budget, builderVars>>

\* Lines 292-301: the accept handler is called with an error (cancellation
\* or another) and returns: the loop has ended.
AcceptEnd ==
  /\ Running
  /\ acceptor.comp \in {"aborted", "error"}
  /\ acceptor' = [acceptor EXCEPT !.comp = "none", !.pc = "ended"]
  /\ UNCHANGED <<session, hist, sessions, nconn, stopper, factoryKind,
                 budget, builderVars>>

\* Lines 311-316: the accept handler is called with the new socket.  The
\* peer's address is read (it throws when the peer is gone, which line 334
\* catches: the socket is dropped and the next accept issued), then remove_if
\* starts at the first element of sessions_, and returns at once when there
\* is none.
AcceptPrune ==
  /\ Running
  /\ acceptor.comp = "ok"
  /\ \E peerGone \in BOOLEAN :
       IF peerGone
       THEN /\ session' = [session EXCEPT ![nconn].state = "dropped"]
            /\ acceptor' = Caught([acceptor EXCEPT !.comp = "none"])
       ELSE /\ acceptor' =
                 [acceptor EXCEPT !.comp = "none",
                                  !.pc = IF sessions = <<>> THEN "pruned"
                                         ELSE "pruning",
                                  !.it = First(sessions)]
            /\ UNCHANGED session
  /\ UNCHANGED <<hist, sessions, nconn, stopper, factoryKind, budget,
                 builderVars>>

\* Lines 316-321: remove_if at one element of sessions_.  The element is taken
\* out of the list when its session is not open, and the iterator moves to the
\* next; at the end remove_if destroys what it took out and returns.  With a
\* dangling iterator (closeAllSessions has cleared the list meanwhile) the
\* thread faults, or remove_if goes on where the freed node leads.
AcceptPruneNode ==
  /\ Running
  /\ acceptor.pc = "pruning"
  /\ IF Dangles(acceptor.it, sessions)
     THEN \E n \in IteratorNext(acceptor.it, sessions) :
            /\ acceptor' =
                 IF n = -1 THEN [acceptor EXCEPT !.pc = "crashed"]
                 ELSE IF n = 0 THEN [acceptor EXCEPT !.pc = "pruned", !.it = 0,
                                                     !.removed = {}]
                 ELSE [acceptor EXCEPT !.it = n]
            /\ session' =
                 IF n = 0 THEN ReapSessions(session, sessions, {}) ELSE session
            /\ hist' =
                 IF n = 0 THEN ReapHist(session, hist, sessions, {}) ELSE hist
            /\ UNCHANGED sessions
     ELSE LET c    == acceptor.it
              next == Successor(sessions, c)
              gone == ~IsOpen(session[c])
              kept == IF gone THEN Unlinked(sessions, c) ELSE sessions
              out  == IF gone THEN acceptor.removed \cup {c}
                      ELSE acceptor.removed
          IN  /\ sessions' = kept
              /\ IF next = 0
                 THEN /\ acceptor' = [acceptor EXCEPT !.pc = "pruned",
                                                      !.it = 0,
                                                      !.removed = {}]
                      /\ session' = ReapSessions(session, kept, {})
                      /\ hist' = ReapHist(session, hist, kept, {})
                 ELSE /\ acceptor' = [acceptor EXCEPT !.it = next,
                                                      !.removed = out]
                      /\ UNCHANGED <<session, hist>>
  /\ UNCHANGED <<nconn, stopper, factoryKind, budget, builderVars>>

\* Lines 324-330: the factory makes a handler, the Session is constructed and
\* started.  Session::start reads the peer's address too (line 68): when that
\* throws, the Session is destroyed by the catch and the next accept issued.
AcceptStart ==
  /\ Running
  /\ acceptor.pc = "pruned"
  /\ LET new == [s |-> NewSession(factoryKind),
                 h |-> [NoHist EXCEPT !.afterStop = (stopper.stops >= 1)]]
     IN  \E peerGone \in BOOLEAN :
           IF peerGone
           THEN /\ session' = [session EXCEPT ![nconn] =
                                 [new.s EXCEPT !.state = "destroyed",
                                               !.open = FALSE]]
                /\ hist' = [hist EXCEPT ![nconn] =
                              [new.h EXCEPT !.life = <<"dtor">>]]
                /\ acceptor' = Caught(acceptor)
           ELSE \E ok \in BOOLEAN : \E q \in Start(new, ok) :
                  /\ session' = [session EXCEPT ![nconn] = q.s]
                  /\ hist' = [hist EXCEPT ![nconn] = q.h]
                  /\ acceptor' = [acceptor EXCEPT !.pc = "started"]
  /\ UNCHANGED <<sessions, nconn, stopper, factoryKind, budget, builderVars>>

\* Lines 331-337 and back to 305: the session is recorded in sessions_ and
\* the next accept issued.
AcceptInsert ==
  /\ Running
  /\ acceptor.pc = "started"
  /\ sessions' = Append(sessions, nconn)
  /\ acceptor' = IssueAccept(acceptor)
  /\ UNCHANGED <<session, hist, nconn, stopper, factoryKind, budget, builderVars>>

\* ------------------------------------------------------------ Server::stop

\* CancelAccept that queues a cancellation whether or not an accept is
\* pending.
CancelAccept_Always(a) == [a EXCEPT !.op = FALSE, !.comp = "aborted"]

\* acceptor_.cancel(): a pending accept completes with operation_aborted; a
\* completion already queued, or a running accept handler, is not touched.
CancelAccept(a) ==
  IF a.op THEN [a EXCEPT !.op = FALSE, !.comp = "aborted"] ELSE a

\* Server::stop, line 357: stopAccepting.
StopAccepting ==
  /\ Running
  /\ stopper.pc = "idle"
  /\ stopper.stops < MaxStops
  /\ acceptor' = CancelAccept(acceptor)
  /\ stopper' = [stopper EXCEPT !.pc = "cancelled", !.it = 0]
  /\ UNCHANGED <<session, hist, sessions, nconn, factoryKind, budget, builderVars>>

\* closeAllSessions, line 280: the control of the loop.  The iterator is put
\* at the first element when the loop begins, and moved to the next element
\* after the body; the loop ends when it is at the end.
CloseAllLoop ==
  /\ Running
  /\ stopper.pc \in {"cancelled", "visited"}
  /\ \E n \in (IF stopper.pc = "cancelled" THEN {First(sessions)}
               ELSE IteratorNext(stopper.it, sessions)) :
       stopper' =
         IF n = -1 THEN [stopper EXCEPT !.pc = "crashed"]
         ELSE IF n = 0 THEN [stopper EXCEPT !.pc = "looped", !.it = 0]
         ELSE [stopper EXCEPT !.pc = "at", !.it = n]
  /\ UNCHANGED <<session, hist, sessions, acceptor, nconn, factoryKind,
                 budget, builderVars>>

\* closeAllSessions, lines 281-283: the body of the loop, close() on the
\* session the iterator designates when it is open.  The iterator stays where
\* it is.
CloseAllBody ==
  /\ Running
  /\ stopper.pc = "at"
  /\ \E c \in IteratorAt(stopper.it, sessions) :
       IF c = -1
       THEN /\ stopper' = [stopper EXCEPT !.pc = "crashed"]
            /\ UNCHANGED <<session, hist>>
       ELSE IF c = 0
       THEN /\ stopper' = [stopper EXCEPT !.pc = "visited"]
            /\ UNCHANGED <<session, hist>>
       ELSE /\ session' = [session EXCEPT ![c] =
                             IF IsOpen(@) THEN Close(@) ELSE @]
            /\ hist' = [hist EXCEPT ![c].stopSeen = @ \/ IsOpen(session[c])]
            /\ stopper' = [stopper EXCEPT !.pc = "visited"]
  /\ UNCHANGED <<sessions, acceptor, nconn, factoryKind, budget, builderVars>>

\* closeAllSessions, line 286: sessions_.clear(); then stop() returns.
CloseAllClear ==
  /\ Running
  /\ stopper.pc = "looped"
  /\ sessions' = <<>>
  /\ session' = ReapSessions(session, <<>>, AcceptLocal)
  /\ hist' = ReapHist(session, hist, <<>>, AcceptLocal)
  /\ stopper' = [pc |-> "idle", stops |-> stopper.stops + 1, it |-> 0]
  /\ UNCHANGED <<acceptor, nconn, factoryKind, budget, builderVars>>

\* ----------------------------------------------------------- ServerBuilder
\* Strings are sequences of one-character strings.

Digits == {"0", "1", "2", "3", "4", "5", "6", "7", "8", "9"}

DigitVal(ch) ==
  CASE ch = "0" -> 0 [] ch = "1" -> 1 [] ch = "2" -> 2 [] ch = "3" -> 3
    [] ch = "4" -> 4 [] ch = "5" -> 5 [] ch = "6" -> 6 [] ch = "7" -> 7
    [] ch = "8" -> 8 [] ch = "9" -> 9

AllDigits(q) == \A i \in 1..Len(q) : q[i] \in Digits

\* std::stoi of a string of decimal digits.
RECURSIVE Stoi(_)
Stoi(q) ==
  IF q = <<>> THEN 0
  ELSE Stoi(SubSeq(q, 1, Len(q) - 1)) * 10 + DigitVal(q[Len(q)])

\* The places where the regex ([^:]+):(\d{1,5}) of line 389 can split the
\* whole string (regex_match): a host without ':', a ':', one to five digits.
HostPortSplits(ep) ==
  {i \in 1..Len(ep) :
     /\ ep[i] = ":"
     /\ i > 1
     /\ \A j \in 1..(i - 1) : ep[j] # ":"
     /\ Len(ep) - i \in 1..5
     /\ AllDigits(SubSeq(ep, i + 1, Len(ep)))}

\* The strings between the dots of q.
RECURSIVE SplitDots(_)
SplitDots(q) ==
  IF \A i \in 1..Len(q) : q[i] # "."
  THEN <<q>>
  ELSE LET k == CHOOSE i \in 1..Len(q) :
                  q[i] = "." /\ \A j \in 1..(i - 1) : q[j] # "."
       IN  <<SubSeq(q, 1, k - 1)>> \o SplitDots(SubSeq(q, k + 1, Len(q)))

\* asio::ip::make_address of a host without ':': a dotted quad of decimal
\* numbers 0..255 without leading zeros.
MakeAddressOk(host) ==
  LET parts == SplitDots(host)
  IN  /\ Len(parts) = 4
      /\ \A i \in 1..4 :
           /\ Len(parts[i]) \in 1..3
           /\ AllDigits(parts[i])
           /\ (Len(parts[i]) > 1 => parts[i][1] # "0")
           /\ Stoi(parts[i]) <= 255

\* tcp::endpoint(addr, unsigned short port_num) given the int of std::stoi.
ToPort(n) == n % 65536

NotBuilt == [kind |-> "none"]
InvalidArgument(what) == [kind |-> "invalid_argument", what |-> what]
SystemError == [kind |-> "system_error"]
TcpServer(host, port) ==
  [kind |-> "server", protocol |-> "Tcp", host |-> host, port |-> port]
UnixServer(path) == [kind |-> "server", protocol |-> "Unix", path |-> path]
\* The Server of lines 429-432 when the switch of line 387 matched no case:
\* its impl_ is null.
NullServer == [kind |-> "server", protocol |-> "none"]

\* The listening port of the endpoint built at line 406.
ListenPort(portText) == ToPort(Stoi(portText))

\* ServerBuilder::build: what it returns or throws.  The constructor of
\* ServerImplStream (open, bind, listen) throws when the system refuses.
BuildOutcomes(b) ==
  IF ~b.factory THEN {InvalidArgument("invalid request handler factory")}
  ELSE IF b.protocol_ = "Tcp"
  THEN IF HostPortSplits(b.endpoint_) = {}
       THEN {InvalidArgument("invalid host or port")}
       ELSE LET i == CHOOSE k \in HostPortSplits(b.endpoint_) : TRUE
                host == SubSeq(b.endpoint_, 1, i - 1)
                port == SubSeq(b.endpoint_, i + 1, Len(b.endpoint_))
            IN  IF ~MakeAddressOk(host)
                THEN {InvalidArgument("invalid address")}
                ELSE {TcpServer(host, ListenPort(port)), SystemError}
  ELSE IF b.protocol_ = "Unix"
  THEN {UnixServer(b.endpoint_), SystemError}
  ELSE {NullServer}

\* The endpoint strings tried.
Hosts ==
  {<<"1", "2", "7", ".", "0", ".", "0", ".", "1">>,
   <<"0", ".", "0", ".", "0", ".", "0">>,
   <<"2", "5", "6", ".", "0", ".", "0", ".", "1">>,
   <<"1", ".", "2", ".", "3">>,
   <<"h", "o", "s", "t">>,
   <<":", ":", "1">>,
   <<>>}
PortTexts ==
  {<<"0">>, <<"1">>, <<"8", "0">>, <<"0", "8", "0">>,
   <<"6", "5", "5", "3", "5">>, <<"6", "5", "5", "3", "6">>,
   <<"7", "0", "0", "0", "0">>, <<"9", "9", "9", "9", "9">>,
   <<"1", "0", "0", "0", "0", "0">>, <<"8", "x">>, <<"-", "1">>, <<>>}
Separators == {<<":">>, <<>>, <<":", ":">>}
EndpointStrings ==
  {h \o sep \o pt : h \in Hosts, sep \in Separators, pt \in PortTexts}

\* ServerBuilder::setEndpoint.
SetEndpoint ==
  /\ built = NotBuilt
  /\ \E proto \in {"Tcp", "Unix"}, ep \in EndpointStrings :
       builder' = [builder EXCEPT !.protocol_ = proto, !.endpoint_ = ep]
  /\ UNCHANGED <<built, serverVars>>

\* ServerBuilder::setRequestHandlerFactory (the factory may be null).
SetRequestHandlerFactory ==
  /\ built = NotBuilt
  /\ \E f \in BOOLEAN : builder' = [builder EXCEPT !.factory = f]
  /\ UNCHANGED <<built, serverVars>>

\* ServerBuilder::build, called once on the builder as configured.
Build ==
  /\ built = NotBuilt
  /\ built' \in BuildOutcomes(builder)
  /\ UNCHANGED <<builder, serverVars>>

\* ------------------------------------------------------- the specifications

\* The endpoint the running server of Spec was built with.
Localhost80 ==
  <<"1", "2", "7", ".", "0", ".", "0", ".", "1", ":", "8", "0">>

\* A server built by ServerBuilder::build, before asyncRun.
InitServer ==
  /\ session = [c \in Conn |-> NoSession]
  /\ hist = [c \in Conn |-> NoHist]
  /\ sessions = <<>>
  /\ acceptor = [op |-> FALSE, comp |-> "none", pc |-> "init", it |-> 0,
                 removed |-> {}]
  /\ nconn = 0
  /\ stopper = [pc |-> "idle", stops |-> 0, it |-> 0]
  /\ factoryKind \in HandlerKinds
  /\ budget = MaxInput

Init ==
  /\ InitServer
  /\ builder = [protocol_ |-> "Tcp", endpoint_ |-> Localhost80,
                factory |-> TRUE]
  /\ built \in {r \in BuildOutcomes(builder) : r.kind = "server"}

Next ==
  \/ AsyncRun
  \/ AcceptComplete
  \/ AcceptFail
  \/ AcceptEnd
  \/ AcceptPrune
  \/ AcceptPruneNode
  \/ AcceptStart
  \/ AcceptInsert
  \/ StopAccepting
  \/ CloseAllLoop
  \/ CloseAllBody
  \/ CloseAllClear
  \/ \E c \in Conn : ReadComplete(c)
  \/ \E c \in Conn : ReadFail(c)
  \/ \E c \in Conn : WriteComplete(c)
  \/ \E c \in Conn : WriteFail(c)
  \/ \E c \in Conn : SessionRun(c)

Spec == Init /\ [][Next]_vars

\* The sessions alone.  Every connection has been accepted and its session
\* started and recorded in sessions_ (the state after line 331 of the last
\* accept handler); the next accept is pending and no connection arrives.
RunningSession(kind) ==
  [NewSession(kind) EXCEPT !.ops = <<"read">>, !.coro = "read"]

InitSessions ==
  /\ factoryKind \in HandlerKinds
  /\ session = [c \in Conn |-> RunningSession(factoryKind)]
  /\ hist = [c \in Conn |->
               [NoHist EXCEPT !.life = <<"atSessionStart">>, !.startOk = TRUE,
                              !.didIO = TRUE]]
  /\ sessions = [c \in Conn |-> c]
  /\ acceptor = [op |-> TRUE, comp |-> "none", pc |-> "wait", it |-> 0,
                 removed |-> {}]
  /\ nconn = MaxConn
  /\ stopper = [pc |-> "idle", stops |-> 0, it |-> 0]
  /\ budget = MaxStream
  /\ builder = [protocol_ |-> "Tcp", endpoint_ |-> Localhost80,
                factory |-> TRUE]
  /\ built \in {r \in BuildOutcomes(builder) : r.kind = "server"}

NextSessions ==
  \/ \E c \in Conn : ReadComplete(c)
  \/ \E c \in Conn : ReadFail(c)
  \/ \E c \in Conn : WriteComplete(c)
  \/ \E c \in Conn : WriteFail(c)
  \/ \E c \in Conn : SessionRun(c)

SpecSessions == InitSessions /\ [][NextSessions]_vars

\* The values protocol_ can hold: the two of Server::Protocol, and any other.
ProtocolValues == {"Tcp", "Unix", "other"}

\* A fresh ServerBuilder: the constructor (lines 363-365) sets ioContext_
\* only.  The endpoint is empty and the factory null; protocol_ is not
\* initialised and holds whatever the memory held.
InitBuild ==
  /\ InitServer
  /\ factoryKind = "echo"
  /\ builder \in [protocol_ : ProtocolValues, endpoint_ : {<<>>},
                  factory : {FALSE}]
  /\ built = NotBuilt

NextBuild ==
  \/ SetEndpoint
  \/ SetRequestHandlerFactory
  \/ Build

SpecBuild == InitBuild /\ [][NextBuild]_vars

\* ------------------------------------------------------------------ claims

IsPrefix(p, q) == Len(p) <= Len(q) /\ SubSeq(q, 1, Len(p)) = p

Count(q, e) == Cardinality({i \in 1..Len(q) : q[i] = e})

Position(q, e) == CHOOSE i \in 1..Len(q) : q[i] = e

\* The transport of connection c has been closed, by the close sequence or by
\* the destructor of the socket.
TransportClosed(c) == "close" \in Range(hist[c].life) \/ "dtor" \in Range(hist[c].life)

\* C1.  For every connection whose session was started (atSessionStart was
\* called, whether it succeeded or failed): atSessionStart has been called
\* exactly once and first, atSessionClose at most once, and once the
\* transport is closed atSessionClose has been called exactly once and before
\* the transport was closed.
\* The code does not do this: see C1 in RESULTS.json.
C1_StartCloseExactlyOnce ==
  \A c \in Conn :
    LET l == hist[c].life
    IN  "atSessionStart" \in Range(l) =>
          /\ Count(l, "atSessionStart") = 1
          /\ l[1] = "atSessionStart"
          /\ Count(l, "atSessionClose") <= 1
          /\ TransportClosed(c) =>
               /\ Count(l, "atSessionClose") = 1
               /\ \A i \in 1..Len(l) :
                    l[i] \in {"close", "dtor"} => Position(l, "atSessionClose") < i

\* C2.  Once stop() has returned, every session that was open and running in
\* the live set when closeAllSessions went over it, and that has no completion
\* left for its strand to run, is closed: atClose has run and its socket is
\* not open.  (A session for which this fails waits for an operation that
\* nothing will cancel.)
\* The code does not do this: see C2 in RESULTS.json.
C2_StopClosesEverySession ==
  \A c \in Conn :
    (/\ hist[c].stopSeen
     /\ hist[c].startOk
     /\ stopper.stops >= 1
     /\ session[c].comps = <<>>)
    => (~session[c].open /\ CloseRan(hist[c]))

\* C3.  After stop() has returned, no step accepts a connection and no step
\* creates or starts a session.
\* The code does not do this: see C3 in RESULTS.json.
C3_NoAcceptAfterStop ==
  [][stopper.stops >= 1 =>
       /\ nconn' = nconn
       /\ \A c \in Conn :
            session[c].state = "absent" => session'[c].state = "absent"]_vars

\* The session of connection c waits for a read and has nothing else to do:
\* all it received is processed and all it staged is written.
Quiescent(c) ==
  session[c].open /\ session[c].ops = <<"read">> /\ session[c].comps = <<>>

\* What the echo handler's session writes and retains when all of stream
\* arrives in a single read.
SingleRead(stream) == CHOOSE o \in ProcessPass("echo", stream, <<>>) : TRUE

\* C4.  With the echo handler, however the bytes received so far were split
\* into reads: what the session has written is a prefix of what it writes
\* when they arrive in a single read, and when the session is waiting for
\* the next read it has written exactly that and retains exactly what a
\* single read retains.
C4_SplitReadsSameOutput ==
  \A c \in Conn :
    session[c].handler = "echo" =>
      LET whole == SingleRead(hist[c].recvd)
      IN  /\ IsPrefix(hist[c].written, whole.res)
          /\ Quiescent(c) =>
               /\ hist[c].written = whole.res
               /\ session[c].reqBuffer = whole.req

\* C4's case: a line that arrived in two reads has been echoed.
C4_Witness ==
  \E c \in Conn :
    /\ session[c].handler = "echo"
    /\ Quiescent(c)
    /\ hist[c].reads >= 2
    /\ hist[c].recvd = <<Letter(c), NL>>
    /\ hist[c].written = <<Letter(c), NL>>

RECURSIVE ConcatOuts(_)
ConcatOuts(log) ==
  IF log = <<>> THEN <<>>
  ELSE ConcatOuts(SubSeq(log, 1, Len(log) - 1)) \o log[Len(log)].out

\* C5.  In a processing pass the first handler call sees the whole inbound
\* buffer; every further call follows a successful call that consumed a
\* positive count smaller than its view, and sees that view without the
\* bytes consumed; the outbound buffer after the pass is the concatenation of
\* the outputs in call order; and an outbound buffer, and what was written
\* from it, holds only bytes of its own connection.
C5_PackedMessagesInOrder ==
  \A c \in Conn :
    LET log == hist[c].passLog
    IN  /\ log # <<>> =>
             /\ log[1].view = hist[c].passIn
             /\ \A i \in 2..Len(log) :
                  /\ log[i - 1].status = "Success"
                  /\ log[i - 1].ignore > 0
                  /\ log[i - 1].ignore < Len(log[i - 1].view)
                  /\ log[i].view = DropFirst(log[i - 1].view, log[i - 1].ignore)
             /\ hist[c].passOut = ConcatOuts(log)
        /\ Range(session[c].resBuffer) \subseteq Alphabet(c)
        /\ Range(hist[c].written) \subseteq Alphabet(c)

\* C5's case: one read delivered two complete lines to the echo handler, which
\* was called twice, while the other connection has staged output of its own.
C5_Witness ==
  \E c \in Conn : \E d \in Conn \ {c} :
    /\ session[c].handler = "echo"
    /\ hist[c].reads = 1
    /\ Len(hist[c].passLog) = 2
    /\ hist[c].passOut = <<NL, NL>>
    /\ session[d].resBuffer # <<>>

\* The step runs the close sequence of the session of connection c.
ClosesNow(c) == CloseRan(hist[c])' /\ ~CloseRan(hist[c])

\* C6.  A step in which a session runs its close sequence (after a handler
\* failure, a transport error, a disconnect of its peer or a cancellation)
\* changes nothing of any other session, of the live set or of the acceptor:
\* in particular an accept that was outstanding still is.
C6_FailureStaysInSession ==
  [][\A c \in Conn :
       ClosesNow(c) =>
         /\ \A d \in Conn \ {c} : session'[d] = session[d] /\ hist'[d] = hist[d]
         /\ acceptor' = acceptor
         /\ sessions' = sessions
         /\ nconn' = nconn]_vars

\* C6's case: with no stop() called, the handler of one session has failed
\* and the session has closed, while another session of the live set is open
\* and waiting for its read and an accept is outstanding.
C6_Witness ==
  /\ stopper = [pc |-> "idle", stops |-> 0, it |-> 0]
  /\ acceptor.op
  /\ CloseRan(hist[1])
  /\ hist[1].passLog # <<>>
  /\ hist[1].passLog[Len(hist[1].passLog)].status = "Other"
  /\ session[2].open
  /\ session[2].ops = <<"read">>
  /\ sessions = <<1, 2>>

\* C7.  A session that has issued a read or a write, or whose handler's handle
\* was called, had atSessionStart called first and successfully; a session
\* whose atSessionStart failed has no operation outstanding or completed.
C7_NoIOWithoutStart ==
  \A c \in Conn :
    /\ hist[c].didIO =>
         /\ hist[c].life # <<>>
         /\ hist[c].life[1] = "atSessionStart"
         /\ hist[c].startOk
    /\ ("atSessionStart" \in Range(hist[c].life) /\ ~hist[c].startOk) =>
         /\ ~hist[c].didIO
         /\ session[c].ops = <<>>
         /\ session[c].comps = <<>>
         /\ hist[c].passLog = <<>>

\* C7's case: a session whose atSessionStart failed is in the live set while
\* the server goes on to accept the next connection.
C7_Witness ==
  /\ 1 \in Range(sessions)
  /\ hist[1].life = <<"atSessionStart">>
  /\ ~hist[1].startOk
  /\ nconn >= 2

\* The step is one of the thread that calls stop().
StopStep == stopper' # stopper

\* C8.  A step of a call of stop() that follows a completed call of stop(),
\* taken with no accept pending or queued and an empty live set that the loop
\* of closeAllSessions found empty too (it is at no element), changes nothing
\* of the acceptor, of the live set or of any session: no close sequence runs
\* again.
C8_SecondStopChangesNothing ==
  [][(/\ StopStep
      /\ stopper.stops >= 1
      /\ ~acceptor.op
      /\ acceptor.comp = "none"
      /\ sessions = <<>>
      /\ stopper.pc \notin {"at", "visited"})
     => (/\ acceptor' = acceptor
         /\ sessions' = sessions
         /\ session' = session
         /\ hist' = hist)]_vars

\* C8's case: stop() has returned twice on a server whose accept loop the
\* first call ended and whose session the first call closed.
C8_Witness ==
  /\ stopper.stops >= 2
  /\ stopper.pc = "idle"
  /\ acceptor.pc = "ended"
  /\ sessions = <<>>
  /\ \E c \in Conn : hist[c].stopSeen /\ CloseRan(hist[c])

\* The port text of a host:port string, and <<>> when it has no such form.
PortTextOf(ep) ==
  IF HostPortSplits(ep) = {} THEN <<>>
  ELSE SubSeq(ep, (CHOOSE k \in HostPortSplits(ep) : TRUE) + 1, Len(ep))

\* C9.  When build() for the TCP protocol has constructed a server, the
\* endpoint string has the form host:port with a valid literal address and a
\* decimal port in 1..65535.
\* The code does not do this: see C9 in RESULTS.json.
C9_TcpPortInRange ==
  (built.kind = "server" /\ built.protocol = "Tcp") =>
    /\ HostPortSplits(builder.endpoint_) # {}
    /\ Stoi(PortTextOf(builder.endpoint_)) \in 1..65535

CloseEvents(l) ==
  SelectSeq(l, LAMBDA e : e \in {"atSessionClose", "shutdown", "close"})

\* C10.  The close sequence of a session has run not at all or once, as
\* atSessionClose, shutdown, close in that order; and a session whose close
\* sequence has run has issued no read or write and called no handle since,
\* and has no operation outstanding or completed.
C10_CloseSequenceOnce ==
  \A c \in Conn :
    /\ CloseEvents(hist[c].life) \in
         {<<>>, <<"atSessionClose", "shutdown", "close">>}
    /\ ~hist[c].ioAfterClose
    /\ CloseRan(hist[c]) => session[c].ops = <<>> /\ session[c].comps = <<>>

\* C10's case: stop() went over a session that had received data, stop() has
\* returned and the session has run its close sequence.
C10_Witness ==
  \E c \in Conn :
    /\ hist[c].stopSeen
    /\ stopper.stops >= 1
    /\ CloseRan(hist[c])
    /\ hist[c].recvd # <<>>

\* C11.  Every session has at most one asynchronous operation outstanding:
\* no read together with a write, no two reads, no two writes.
C11_OneOperationOutstanding ==
  \A c \in Conn : Len(session[c].ops) <= 1

\* C11's case: a session that has read and processed data has its write
\* outstanding (and nothing else), while another session has its read
\* outstanding.
C11_Witness ==
  \E c \in Conn : \E d \in Conn \ {c} :
    /\ hist[c].reads >= 1
    /\ session[c].ops = <<"write">>
    /\ session[d].ops = <<"read">>

\* The step runs a processing pass of the session of connection c.
PassRan(c) == hist[c].passLog = <<>> /\ hist'[c].passLog # <<>>

\* The step issues an operation of the given kind on the socket of c.
Issued(c, kind) == Count(session'[c].ops, kind) > Count(session[c].ops, kind)

\* The step runs a completion handler of the session of connection c.
HandlerRuns(c) == Len(session'[c].comps) < Len(session[c].comps)

\* C12.  In every step, for every session: a processing pass runs only in the
\* handler of a read that completed successfully; a write is issued only by a
\* step that ran a processing pass, and of exactly the bytes that pass staged;
\* what goes on the wire is a prefix of what the last pass staged; a read is
\* issued only at the start of the session, by the handler of a write that
\* completed, or by a processing pass that staged nothing; and a handler of
\* the session runs only when the session has no operation outstanding and no
\* other completion waiting, so that no two of its steps can run at once.
C12_ReadProcessWriteAlternate ==
  [][\A c \in Conn :
       /\ PassRan(c) =>
            /\ HandlerRuns(c)
            /\ session[c].coro = "read"
            /\ Head(session[c].comps) = "ok"
       /\ Issued(c, "write") =>
            /\ PassRan(c)
            /\ session'[c].resBuffer # <<>>
            /\ session'[c].resBuffer = ConcatOuts(hist'[c].passLog)
       /\ hist'[c].written # hist[c].written =>
            \E k \in 0..Len(hist[c].passOut) :
              hist'[c].written = hist[c].written \o SubSeq(hist[c].passOut, 1, k)
       /\ Issued(c, "read") =>
            \/ session[c].state = "absent"
            \/ /\ HandlerRuns(c)
               /\ session[c].coro = "write"
               /\ Head(session[c].comps) = "ok"
            \/ PassRan(c) /\ hist'[c].passOut = <<>>
       /\ HandlerRuns(c) =>
            /\ session[c].ops = <<>>
            /\ Len(session[c].comps) = 1]_vars

\* C12's case: a session has gone through read, process, write, read and then
\* through read, process, read: its first pass staged a line that was written,
\* its second pass staged nothing, and it waits for its third read.
C12_Witness ==
  \E c \in Conn :
    /\ Quiescent(c)
    /\ hist[c].reads = 2
    /\ hist[c].written = <<Letter(c), NL>>
    /\ hist[c].passLog # <<>>
    /\ hist[c].passOut = <<>>

\* The consumed lengths the handler reported in the calls of a pass, summed.
RECURSIVE ConsumedIn(_)
ConsumedIn(log) ==
  IF log = <<>> THEN 0
  ELSE ConsumedIn(SubSeq(log, 1, Len(log) - 1)) + log[Len(log)].ignore

\* The last handler call of the pass logged in log reported the given status.
EndedWith(log, status) == log # <<>> /\ log[Len(log)].status = status

\* C13.  A step that runs a processing pass which the handler ends with
\* PartialData leaves in the inbound buffer exactly the bytes that follow
\* those the handler reported consumed in that pass (all of the buffer when it
\* consumed nothing); every pass starts with a handler call that sees the
\* whole inbound buffer; and between passes the inbound buffer changes only by
\* a read appending the bytes it received.  So the call that follows
\* PartialData sees the retained bytes followed by the newly read ones.
C13_PartialDataRetainsTail ==
  [][\A c \in Conn :
       /\ PassRan(c) => hist'[c].passLog[1].view = session[c].reqBuffer
       /\ (PassRan(c) /\ EndedWith(hist'[c].passLog, "PartialData")) =>
            /\ session'[c].reqBuffer =
                 DropFirst(session[c].reqBuffer,
                           Min(ConsumedIn(hist'[c].passLog),
                               Len(session[c].reqBuffer)))
            /\ ConsumedIn(hist'[c].passLog) = 0 =>
                 session'[c].reqBuffer = session[c].reqBuffer
       /\ (~PassRan(c) /\ session'[c].reqBuffer # session[c].reqBuffer) =>
            \E chunk \in Chunks(c, MaxStream) :
              /\ session'[c].reqBuffer = session[c].reqBuffer \o chunk
              /\ hist'[c].recvd = hist[c].recvd \o chunk]_vars

\* C13's case: the echo handler was given a line and the start of the next in
\* one read, echoed the line and reported PartialData for the rest; the rest
\* was retained, and after the second read the handler saw it followed by the
\* newly read byte.
C13_Witness ==
  \E c \in Conn :
    /\ session[c].handler = "echo"
    /\ hist[c].reads = 2
    /\ hist[c].recvd = <<NL, Letter(c), NL>>
    /\ hist[c].passIn = <<Letter(c), NL>>
    /\ hist[c].written = <<NL, Letter(c), NL>>

\* C14, as stated.  A step that runs a processing pass which the handler ends
\* with PartialData issues the next read and no write, whatever the earlier
\* calls of the pass staged.
\* The code does not do this: see C14 in RESULTS.json.
C14_PartialDataNeverWrites ==
  [][\A c \in Conn :
       (PassRan(c) /\ EndedWith(hist'[c].passLog, "PartialData")) =>
         /\ ~Issued(c, "write")
         /\ Issued(c, "read")]_vars

\* C14, amended.  A step that runs a processing pass which the handler ends
\* with PartialData issues the next read and no write when the pass staged
\* nothing; when earlier calls of the pass staged output, it issues the write
\* of exactly that output and no read (the read follows the write, C12).
C14_PartialDataWritesOnlyStaged ==
  [][\A c \in Conn :
       (PassRan(c) /\ EndedWith(hist'[c].passLog, "PartialData")) =>
         IF ConcatOuts(hist'[c].passLog) = <<>>
         THEN /\ ~Issued(c, "write")
              /\ session'[c].ops = <<"read">>
              /\ session'[c].resBuffer = <<>>
         ELSE /\ ~Issued(c, "read")
              /\ session'[c].ops = <<"write">>
              /\ session'[c].resBuffer = ConcatOuts(hist'[c].passLog)]_vars

\* C14's case: a pass made two handler calls, the first staged output and the
\* second reported PartialData, and the write of the staged output is
\* outstanding.
C14_Witness ==
  \E c \in Conn :
    /\ Len(hist[c].passLog) = 2
    /\ hist[c].passLog[1].out # <<>>
    /\ EndedWith(hist[c].passLog, "PartialData")
    /\ session[c].ops = <<"write">>
    /\ session[c].reqBuffer # <<>>

\* The call consumed its whole view: the handler reported success with a
\* consumed length of 0, or of the size of the view or more.
ConsumedAll(call) ==
  /\ call.status = "Success"
  /\ (call.ignore = 0 \/ call.ignore >= Len(call.view))

\* C15.  A handler call that reports success with a consumed length of 0, or
\* of the size of its view or more, is the last call of its processing pass,
\* and the inbound buffer is empty after that pass (until the next read
\* completes).
C15_SuccessClearsBuffer ==
  \A c \in Conn :
    \A i \in 1..Len(hist[c].passLog) :
      ConsumedAll(hist[c].passLog[i]) =>
        /\ i = Len(hist[c].passLog)
        /\ session[c].reqBuffer = <<>>

\* C15's case: the last pass of one session ended with a successful call that
\* reported 0 for a view of two bytes, that of another with a successful call
\* that reported more than the size of its view; both buffers are empty.
C15_Witness ==
  \E c \in Conn : \E d \in Conn \ {c} :
    /\ EndedWith(hist[c].passLog, "Success")
    /\ hist[c].passLog[Len(hist[c].passLog)].ignore = 0
    /\ Len(hist[c].passLog[Len(hist[c].passLog)].view) = 2
    /\ session[c].reqBuffer = <<>>
    /\ EndedWith(hist[d].passLog, "Success")
    /\ hist[d].passLog[Len(hist[d].passLog)].ignore
         > Len(hist[d].passLog[Len(hist[d].passLog)].view)
    /\ session[d].reqBuffer = <<>>

\* C16.  A step that runs a processing pass which the handler ends with a
\* status other than Success and PartialData runs the close sequence of the
\* session in that same step, and leaves the socket closed with no operation
\* outstanding; from then on nothing more is written to the transport, no
\* operation is issued and the handler is not called again.
C16_HandlerErrorCloses ==
  [][\A c \in Conn :
       /\ (PassRan(c) /\ EndedWith(hist'[c].passLog, "Other")) =>
            /\ ClosesNow(c)
            /\ ~session'[c].open
            /\ session'[c].ops = <<>>
            /\ session'[c].comps = <<>>
            /\ hist'[c].written = hist[c].written
       /\ EndedWith(hist[c].passLog, "Other") =>
            /\ hist'[c].written = hist[c].written
            /\ hist'[c].passLog = hist[c].passLog
            /\ session'[c].ops = <<>>
            /\ session'[c].comps = <<>>
            /\ ~session'[c].open]_vars

\* C16's case: the first handler call of a pass staged output, the second
\* reported another error; the session is closed, the staged output is still
\* in the outbound buffer and nothing was written, while the other session
\* has since received data.
C16_Witness ==
  \E c \in Conn : \E d \in Conn \ {c} :
    /\ Len(hist[c].passLog) = 2
    /\ hist[c].passLog[1].out # <<>>
    /\ EndedWith(hist[c].passLog, "Other")
    /\ CloseRan(hist[c])
    /\ session[c].resBuffer # <<>>
    /\ hist[c].written = <<>>
    /\ hist[d].reads >= 1

\* The accept handler is done with connection c and left a Session for it.
Handled(c) ==
  session[c].state = "alive" /\ ~(c = nconn /\ acceptor.pc = "started")

\* C17.  Every session that the accept handler is done with, that was started
\* successfully, whose transport is open and that is not about to run a
\* completion (so it is not on its way to the close sequence) is a member of
\* sessions_.
\* The code does not do this: see C17 in RESULTS.json.
C17_OpenSessionsAreMembers ==
  \A c \in Conn :
    (/\ Handled(c)
     /\ hist[c].startOk
     /\ session[c].open
     /\ session[c].comps = <<>>)
    => c \in Range(sessions)

\* closeAllSessions is in its loop over sessions_: its iterator is in use.
InCloseAllLoop == stopper.pc \in {"at", "visited"}

\* The accept handler is in remove_if: its iterator is in use.
InRemoveIf == acceptor.pc = "pruning"

\* The step is one in which the accept handler reads or changes sessions_: it
\* starts remove_if, is in it, or inserts.
AcceptTouchesSessions ==
  \/ acceptor.comp = "ok" /\ acceptor'.pc \in {"pruning", "pruned"}
  \/ InRemoveIf /\ acceptor' # acceptor
  \/ acceptor.pc = "started" /\ acceptor'.pc # "started"

\* The step is one in which closeAllSessions reads or changes sessions_.
StopTouchesSessions ==
  stopper.pc \in {"cancelled", "at", "visited", "looped"} /\ stopper' # stopper

\* C18.  The accept handler never reads or changes sessions_ while
\* closeAllSessions is in its loop over sessions_, closeAllSessions never
\* reads or changes sessions_ while the accept handler is in remove_if, and
\* no thread faults.
\* The code does not do this: see C18 in RESULTS.json.
C18_NoConcurrentAccess ==
  [][/\ AcceptTouchesSessions => ~InCloseAllLoop
     /\ StopTouchesSessions => ~InRemoveIf
     /\ Running']_vars

\* The step is one in which the handling of the accepted connection c throws.
Threw(c) ==
  session[c].state = "absent" /\ session'[c].state \in {"dropped", "destroyed"}

\* C19.  A step in which the handling of an accepted connection throws leaves
\* sessions_ as it is, without that connection, and issues the next accept; a
\* connection whose handling threw is never recorded in sessions_; and the
\* accept coroutine ends only in a handler called with an error.
C19_AcceptFailureKeepsLoop ==
  [][/\ \A c \in Conn :
          /\ Threw(c) =>
               /\ sessions' = sessions
               /\ c \notin Range(sessions')
               /\ acceptor'.op
               /\ acceptor'.pc = "wait"
          /\ (session[c].state = "dropped" \/ hist[c].life = <<"dtor">>) =>
               c \notin Range(sessions')
     /\ (acceptor.pc # "ended" /\ acceptor'.pc = "ended") =>
          acceptor.comp \in {"aborted", "error"}]_vars

\* C19's case: the handling of the first connection threw when the peer's
\* address was read, that of the second threw in Session::start; no session
\* is recorded and the next accept is outstanding.
C19_Witness ==
  /\ session[1].state = "dropped"
  /\ hist[2].life = <<"dtor">>
  /\ sessions = <<>>
  /\ acceptor.op
  /\ acceptor.pc = "wait"

\* The pruning of lines 316-321 has run for a connection accepted after c.
PrunedAfter(c) ==
  /\ nconn > c
  /\ \/ acceptor.pc \in {"pruned", "started"}
     \/ session[nconn].state \in {"alive", "destroyed"}

\* C20.  A session whose atSessionStart failed is not in sessions_ once the
\* pruning of a later accept has run.
\* The code does not do this: see C20 in RESULTS.json.
C20_FailedStartPruned ==
  \A c \in Conn :
    (/\ hist[c].life = <<"atSessionStart">>
     /\ ~hist[c].startOk
     /\ PrunedAfter(c))
    => c \notin Range(sessions)

====
